---------------------------- MODULE Spec2Model ----------------------------
(***************************************************************************)
(* Shop API (src/main.py, src/schemas.py): a FastAPI layer of create/list  *)
(* handlers over a document store.                                         *)
(*                                                                         *)
(* Conventions of the model                                                *)
(*  - an Optional value is <<>> (None) or <<v>> (the value v);             *)
(*  - a text that is searched or measured (a product title, the search     *)
(*    text q, the `database` status of /test) is a sequence of one-        *)
(*    character strings; other texts are TLA+ strings;                     *)
(*  - a price is an integer number of the smallest price unit;             *)
(*  - a request payload is a function from the field names it carries to   *)
(*    their values; a field it lacks is outside its DOMAIN.                *)
(***************************************************************************)
EXTENDS Integers, Sequences, FiniteSets, TLC

VARIABLES env, db, store, nextId, created, resp

vars == <<env, db, store, nextId, created, resp>>

None == <<>>

Some(v) == <<v>>

Min(a, b) == IF a <= b THEN a ELSE b

\* ------------------------------------------------------------------ bounds

\* Documents the API may insert in one behaviour of Spec.
MaxDocs == 2

\* Longest store error message list_collection_names may raise with.
MaxErrLen == 60

\* Most collections of other applications present in the same database.
MaxOtherColls == 11

\* Largest number of documents a collection holds before the requests of
\* SpecLimit are served.
MaxPreload == 102

\* ------------------------------------------------- record shapes (schemas.py)

Collections == {"product", "category", "wishlist", "order"}

CategorySchema ==
    [name |-> [required |-> TRUE],
     slug |-> [required |-> TRUE]]

ProductSchema ==
    [title       |-> [required |-> TRUE],
     description |-> [required |-> FALSE, default |-> None],
     price       |-> [required |-> TRUE, ge |-> 0],
     category    |-> [required |-> TRUE],
     brand       |-> [required |-> FALSE, default |-> None],
     image       |-> [required |-> FALSE, default |-> None],
     in_stock    |-> [required |-> FALSE, default |-> TRUE]]

OrderItemSchema ==
    [product_id |-> [required |-> TRUE],
     title      |-> [required |-> TRUE],
     price      |-> [required |-> TRUE, ge |-> 0],
     quantity   |-> [required |-> TRUE, ge |-> 1]]

OrderSchema ==
    [user_email       |-> [required |-> TRUE],
     shipping_address |-> [required |-> TRUE],
     payment_method   |-> [required |-> TRUE],
     status           |-> [required |-> FALSE, default |-> "pending"],
     items            |-> [required |-> TRUE],
     total            |-> [required |-> TRUE, ge |-> 0]]

WishlistSchema ==
    [user_email |-> [required |-> TRUE],
     product_id |-> [required |-> TRUE]]

\* The record shape a create handler declares for its body parameter.
SchemaOf(c) ==
    CASE c = "product"  -> ProductSchema
      [] c = "category" -> CategorySchema
      [] c = "wishlist" -> WishlistSchema
      [] c = "order"    -> OrderSchema

\* Field(...): a required field is present.
RequiredPresent(schema, raw) ==
    \A f \in DOMAIN schema : schema[f].required => f \in DOMAIN raw

\* BoundsHold with the ge= constraints left out of the shapes.
BoundsHoldUnchecked(schema, raw) == TRUE

\* Field(ge=...): a present field honours the lower bound of its shape.
BoundsHold(schema, raw) ==
    \A f \in DOMAIN schema \cap DOMAIN raw :
        "ge" \in DOMAIN schema[f] => raw[f] >= schema[f].ge

FlatValid(schema, raw) == RequiredPresent(schema, raw) /\ BoundsHold(schema, raw)

\* The model instance of a valid payload: exactly the fields of the shape,
\* a missing optional field at its default, a field the shape lacks dropped.
FlatModel(schema, raw) ==
    [f \in DOMAIN schema |-> IF f \in DOMAIN raw THEN raw[f] ELSE schema[f].default]

\* Validation of a request body against the shape of collection c; an Order
\* validates each element of its `items` against OrderItem.
Valid(c, raw) ==
    /\ FlatValid(SchemaOf(c), raw)
    /\ c = "order" =>
          \A i \in 1..Len(raw.items) : FlatValid(OrderItemSchema, raw.items[i])

Validated(c, raw) ==
    IF c = "order"
    THEN [FlatModel(OrderSchema, raw) EXCEPT
            !.items = [i \in 1..Len(raw.items) |->
                          FlatModel(OrderItemSchema, raw.items[i])]]
    ELSE FlatModel(SchemaOf(c), raw)


\* ------------------------------------------- the document store (database.py)

\* The identifier the store generates for its n-th insert, and str() of it.
ObjectId(n) == [oid |-> n]

Str(oid) == ToString(oid.oid)

Lower(ch) ==
    CASE ch = "A" -> "a"
      [] ch = "B" -> "b"
      [] OTHER -> ch

\* {"$regex": pat, "$options": "i"} tried at position i of text: the pattern
\* is a regular expression, in which "." stands for any one character and a
\* letter for itself in either case.
RegexMatchAt(pat, text, i) ==
    /\ i + Len(pat) - 1 <= Len(text)
    /\ \A j \in 1..Len(pat) :
          \/ pat[j] = "."
          \/ Lower(pat[j]) = Lower(text[i + j - 1])

\* An unanchored regular expression matches when it matches somewhere.
RegexSearch(pat, text) ==
    \E i \in 1..(Len(text) + 1) : RegexMatchAt(pat, text, i)

\* {"$gte": a, "$lte": b} on a number.
InRange(range, x) ==
    /\ "gte" \in DOMAIN range => x >= range.gte
    /\ "lte" \in DOMAIN range => x <= range.lte

\* One entry of a filter, applied to a document by the store.
MatchesField(doc, f, cond) ==
    CASE f = "title" -> RegexSearch(cond.regex, doc.title)
      [] f = "price" -> InRange(cond, doc.price)
      [] f = "brand" -> doc.brand = Some(cond)
      [] OTHER       -> doc[f] = cond

\* A filter is the conjunction of its entries.
MatchesFilter(doc, query) ==
    \A f \in DOMAIN query : MatchesField(doc, f, query[f])

Take(s, n) == SubSeq(s, 1, Min(n, Len(s)))

\* get_documents(collection, filter, limit): the matching documents of the
\* collection in store order, at most `limit` of them; an error when the
\* handle is absent or the store fails the query (fault).
get_documents(c, query, limit, fault) ==
    IF db = "None" THEN [error |-> "StoreUnavailable"]
    ELSE IF fault THEN [error |-> "StoreOperationError"]
    ELSE [docs |-> Take(SelectSeq(store[c], LAMBDA d : MatchesFilter(d, query)),
                        limit)]

\* The document insert-one stores for a validated payload.
NewDocument(payload, oid) ==
    [f \in DOMAIN payload \cup {"_id"} |-> IF f = "_id" THEN oid ELSE payload[f]]

\* ------------------------------------------------------ handlers (main.py)

Empty == [f \in {} |-> None]

\* `if x:` on an Optional[str]: neither None nor the empty text.
Truthy(opt, empty) == opt # None /\ opt[1] # empty

\* query["title"] = {"$regex": q, "$options": "i"}
TitlePredicate(q) ==
    IF Truthy(q, <<>>)
    THEN "title" :> [regex |-> q[1], options |-> "i"]
    ELSE Empty

\* EqualityPredicate testing `is not None` where the code tests truthiness.
EqualityPredicateNotNone(f, opt) ==
    IF opt # None THEN f :> opt[1] ELSE Empty

\* query["category"] = category, query["brand"] = brand
EqualityPredicate(f, opt) ==
    IF Truthy(opt, "") THEN f :> opt[1] ELSE Empty

\* PriceFilter testing truthiness (`if max_price:`) where the code tests
\* `is not None`: a bound of 0 is dropped.
PriceFilterTruthy(min_price, max_price) ==
    (IF min_price # None /\ min_price[1] # 0 THEN "gte" :> min_price[1] ELSE Empty)
    @@ (IF max_price # None /\ max_price[1] # 0 THEN "lte" :> max_price[1] ELSE Empty)

\* price_filter: "$gte" when min_price is not None, "$lte" when max_price is.
PriceFilter(min_price, max_price) ==
    (IF min_price # None THEN "gte" :> min_price[1] ELSE Empty)
    @@ (IF max_price # None THEN "lte" :> max_price[1] ELSE Empty)

PricePredicate(min_price, max_price) ==
    IF DOMAIN PriceFilter(min_price, max_price) # {}
    THEN "price" :> PriceFilter(min_price, max_price)
    ELSE Empty

\* The filter list_products hands to get_documents.
ProductQuery(q, category, brand, min_price, max_price) ==
    TitlePredicate(q)
    @@ EqualityPredicate("category", category)
    @@ EqualityPredicate("brand", brand)
    @@ PricePredicate(min_price, max_price)

\* IdNormalized reading "_id" where the code pops it.
IdNormalizedKeepingRaw(d) ==
    IF "_id" \in DOMAIN d
    THEN [f \in DOMAIN d \cup {"id"} |-> IF f = "id" THEN Str(d["_id"]) ELSE d[f]]
    ELSE d

\* d["id"] = str(d.pop("_id")) when the document has an "_id".
IdNormalized(d) ==
    IF "_id" \in DOMAIN d
    THEN [f \in (DOMAIN d \ {"_id"}) \cup {"id"} |->
             IF f = "id" THEN Str(d["_id"]) ELSE d[f]]
    ELSE d

\* A response: the operation and its arguments as received, the HTTP status
\* and the body.
Response(op, args, status, body) ==
    [op |-> op, args |-> args, status |-> status, body |-> body]

NoResponse == Response("none", Empty, 0, Empty)

\* FastAPI answers a request that fails validation before the handler runs.
ValidationError(op, args) ==
    Response(op, args, 422, [detail |-> "validation error"])

\* DatabaseUnavailable answering an empty list where the code raises.
DatabaseUnavailableAsEmpty(op, args) ==
    Response(op, args, 200, [items |-> <<>>])

\* raise HTTPException(status_code=500, detail="Database unavailable")
DatabaseUnavailable(op, args) ==
    Response(op, args, 500, [detail |-> "Database unavailable"])

\* An exception a handler lets escape is answered with status 500.
InternalServerError(op, args, error) ==
    Response(op, args, 500, [detail |-> "Internal Server Error", error |-> error])

DefaultProductLimit == 50

DefaultCategoryLimit == 100

DefaultWishlistLimit == 100

DefaultOrderLimit == 50

\* OrDefault with the caller's limit not forwarded.
OrDefaultIgnoringCaller(opt, default) == default

\* A query parameter left out takes the default of the handler's signature.
OrDefault(opt, default) == IF opt = None THEN default ELSE opt[1]

\* for d in docs: ... ; return {"items": docs}
ItemsResponse(op, args, found) ==
    IF "error" \in DOMAIN found
    THEN InternalServerError(op, args, found.error)
    ELSE Response(op, args, 200,
                  [items |-> [i \in 1..Len(found.docs) |-> IdNormalized(found.docs[i])]])

\* GET /
read_root ==
    /\ resp' = Response("read_root", Empty, 200, [message |-> "Shop API running"])
    /\ UNCHANGED <<env, db, store, nextId, created>>

\* GET /api/schema
get_schema_info ==
    /\ resp' = Response("get_schema_info", Empty, 200,
                        [collections |-> <<"user", "category", "product", "order", "wishlist">>])
    /\ UNCHANGED <<env, db, store, nextId, created>>

\* GET /api/products
list_products(q, category, brand, min_price, max_price, limit, fault) ==
    LET args == [q |-> q, category |-> category, brand |-> brand,
                 min_price |-> min_price, max_price |-> max_price, limit |-> limit]
        query == ProductQuery(q, category, brand, min_price, max_price)
    IN  /\ resp' =
              IF db = "None"
              THEN DatabaseUnavailable("list_products", args)
              ELSE [ItemsResponse("list_products", args,
                                  get_documents("product", query,
                                                OrDefault(limit, DefaultProductLimit), fault))
                    EXCEPT !.args = args @@ [query |-> query]]
        /\ UNCHANGED <<env, db, store, nextId, created>>

\* list_categories with the identifier normalisation writing through to the
\* stored documents.
list_categories_in_place(limit, fault) ==
    /\ resp' = ItemsResponse("list_categories", [limit |-> limit],
                             get_documents("category", Empty,
                                           OrDefault(limit, DefaultCategoryLimit), fault))
    /\ store' = [store EXCEPT !.category =
                    [i \in 1..Len(@) |-> IF db # "None" /\ ~fault THEN IdNormalized(@[i]) ELSE @[i]]]
    /\ UNCHANGED <<env, db, nextId, created>>

\* GET /api/categories
list_categories(limit, fault) ==
    /\ resp' = ItemsResponse("list_categories", [limit |-> limit],
                             get_documents("category", Empty,
                                           OrDefault(limit, DefaultCategoryLimit), fault))
    /\ UNCHANGED <<env, db, store, nextId, created>>

\* A list keyed by a customer: user_email is a required query parameter.
ListByEmail(op, c, user_email, limit, default, fault) ==
    LET args == [user_email |-> user_email, limit |-> limit]
    IN  /\ resp' =
              IF user_email = None
              THEN ValidationError(op, args)
              ELSE ItemsResponse(op, args,
                                 get_documents(c, [user_email |-> user_email[1]],
                                               OrDefault(limit, default), fault))
        /\ UNCHANGED <<env, db, store, nextId, created>>

\* GET /api/wishlist
get_wishlist(user_email, limit, fault) ==
    ListByEmail("get_wishlist", "wishlist", user_email, limit, DefaultWishlistLimit, fault)

\* GET /api/orders
list_orders(user_email, limit, fault) ==
    ListByEmail("list_orders", "order", user_email, limit, DefaultOrderLimit, fault)

\* create_document(collection, data): insert-one of the validated payload,
\* answering the string of the identifier the store generated; an error when
\* the handle is absent or the store fails the insert (fault).
create_document(c, payload, fault) ==
    IF db = "None" THEN [error |-> "StoreUnavailable"]
    ELSE IF fault THEN [error |-> "StoreOperationError"]
    ELSE [id |-> Str(ObjectId(nextId)),
          store |-> [store EXCEPT ![c] = Append(@, NewDocument(payload, ObjectId(nextId)))]]

\* A create handler: the body is validated against the shape of the
\* collection, then handed to create_document; the identifier is returned.
Create(op, c, raw, fault) ==
    LET args == [body |-> raw]
        done == create_document(c, Validated(c, raw), fault)
    IN  IF ~Valid(c, raw)
        THEN /\ resp' = ValidationError(op, args)
             /\ UNCHANGED <<env, db, store, nextId, created>>
        ELSE IF "error" \in DOMAIN done
        THEN /\ resp' = InternalServerError(op, args, done.error)
             /\ UNCHANGED <<env, db, store, nextId, created>>
        ELSE /\ nextId <= MaxDocs
             /\ resp' = Response(op, args, 200, [id |-> done.id])
             /\ store' = done.store
             /\ nextId' = nextId + 1
             /\ created' = Append(created, [coll |-> c, id |-> done.id,
                                            payload |-> Validated(c, raw)])
             /\ UNCHANGED <<env, db>>

\* POST /api/products
create_product(raw, fault) == Create("create_product", "product", raw, fault)

\* POST /api/categories
create_category(raw, fault) == Create("create_category", "category", raw, fault)

\* POST /api/wishlist
add_to_wishlist(raw, fault) == Create("add_to_wishlist", "wishlist", raw, fault)

\* POST /api/orders
create_order(raw, fault) == Create("create_order", "order", raw, fault)

\* ------------------------------------------------------- GET /test (main.py)

MsgNotAvailable ==
    <<"U+274C", " ", "N", "o", "t", " ", "A", "v", "a", "i", "l", "a", "b", "l", "e">>

MsgAvailable ==
    <<"U+2705", " ", "A", "v", "a", "i", "l", "a", "b", "l", "e">>

MsgWorking ==
    <<"U+2705", " ", "C", "o", "n", "n", "e", "c", "t", "e", "d", " ", "&", " ",
      "W", "o", "r", "k", "i", "n", "g">>

PrefixConnectedError ==
    <<"U+26A0", "U+FE0F", " ", " ", "C", "o", "n", "n", "e", "c", "t", "e", "d", " ",
      "b", "u", "t", " ", "E", "r", "r", "o", "r", ":", " ">>

MsgNotInitialized ==
    <<"U+26A0", "U+FE0F", " ", " ", "A", "v", "a", "i", "l", "a", "b", "l", "e", " ",
      "b", "u", "t", " ", "n", "o", "t", " ", "i", "n", "i", "t", "i", "a", "l", "i",
      "z", "e", "d">>

PrefixError ==
    <<"U+274C", " ", "E", "r", "r", "o", "r", ":", " ">>

ErrorEcho == 50

CollectionsShown == 10

\* Truncated with the slice left out.
Untruncated(msg) == msg

\* str(e)[:50]
Truncated(msg) == SubSeq(msg, 1, Min(ErrorEcho, Len(msg)))

\* f"... Connected but Error: {str(e)[:50]}"
ConnectedButError(msg) == PrefixConnectedError \o Truncated(msg)

\* f"... Error: {str(e)[:50]}"
OuterError(msg) == PrefixError \o Truncated(msg)

\* collections[:10]
FirstCollections(names) == SubSeq(names, 1, Min(CollectionsShown, Len(names)))

\* "... Set" if os.getenv(NAME) else "... Not Set"
EnvStatus(set) == IF set THEN "Set" ELSE "Not Set"

\* db.list_collection_names(): the collections of this API that hold a
\* document, then those other applications keep in the same database.
CollectionNames(others) ==
    SelectSeq(<<"product", "category", "wishlist", "order">>,
              LAMBDA c : store[c] # <<>>)
    \o [i \in 1..others |-> "other" \o ToString(i)]

\* response = {...}: the payload before the store is probed.
InitialPayload ==
    [backend |-> "Running",
     database |-> MsgNotAvailable,
     connection_status |-> "Not Connected",
     collections |-> <<>>]

\* The inner try/except around db.list_collection_names(): what it raises
\* (listError, with text msg) is caught and reported in `database`.
InnerTry(payload, listError, msg, others) ==
    IF listError
    THEN [payload EXCEPT !.database = ConnectedButError(msg)]
    ELSE [payload EXCEPT !.collections = FirstCollections(CollectionNames(others)),
                         !.database = MsgWorking]

\* The body of the outer try: a payload, or the exception that leaves it.
\* nameError: reading db.name raises, with text msg.
TryBody(nameError, listError, msg, others) ==
    IF db = "None"
    THEN [value |-> [InitialPayload EXCEPT !.database = MsgNotInitialized]]
    ELSE IF nameError
    THEN [raised |-> msg]
    ELSE [value |-> InnerTry([InitialPayload EXCEPT !.database = MsgAvailable,
                                                    !.connection_status = "Connected"],
                             listError, msg, others)]

\* OuterExcept with the handler left out: the exception leaves test_database.
OuterExceptMissing(tried) == tried

\* except Exception as e: response["database"] = f"... Error: {str(e)[:50]}"
OuterExcept(tried) ==
    IF "raised" \in DOMAIN tried
    THEN [value |-> [InitialPayload EXCEPT !.database = OuterError(tried.raised)]]
    ELSE tried

\* GET /test
test_database(nameError, listError, msg, others) ==
    LET args == [nameError |-> nameError, listError |-> listError,
                 msg |-> msg, others |-> others]
        done == OuterExcept(TryBody(nameError, listError, msg, others))
    IN  /\ resp' =
              IF "raised" \in DOMAIN done
              THEN InternalServerError("test_database", args, "Exception")
              ELSE Response("test_database", args, 200,
                            done.value @@ [database_url  |-> EnvStatus(env.DATABASE_URL),
                                           database_name |-> EnvStatus(env.DATABASE_NAME)])
        /\ UNCHANGED <<env, db, store, nextId, created>>

\* ------------------------------------------------------------- the requests

\* Error messages of the store, by length.
ErrorMessages == {[i \in 1..n |-> "x"] : n \in {1, MaxErrLen}}

OtherCollectionCounts == {0, MaxOtherColls}

Limits == {None, Some(1)}

Emails == {None, Some("a@b.com"), Some("c@d.com")}

ProductA == [title |-> <<"A", "b">>, price |-> 1, category |-> "c1"]

ProductB ==
    [title |-> <<"b">>, price |-> 0, category |-> "", brand |-> Some("b1"),
     description |-> Some("d"), image |-> None, in_stock |-> FALSE]

\* Bodies of POST /api/products: valid ones, one without its title, one
\* without its price, one priced below zero.
ProductBodies ==
    {ProductA, ProductB,
     [price |-> 1, category |-> "c1"],
     [title |-> <<"a">>, category |-> "c1"],
     [title |-> <<"a">>, price |-> -1, category |-> "c1"]}

CategoryBodies ==
    {[name |-> "Shirts", slug |-> "c1"], [name |-> "Shirts"]}

WishlistBodies ==
    {[user_email |-> "a@b.com", product_id |-> "1"],
     [user_email |-> "c@d.com", product_id |-> "1"],
     [product_id |-> "1"]}

ItemA == [product_id |-> "1", title |-> "Ab", price |-> 1, quantity |-> 2]

OrderA ==
    [user_email |-> "a@b.com", shipping_address |-> "home", payment_method |-> "cod",
     items |-> <<ItemA>>, total |-> 2]

\* Bodies of POST /api/orders: valid ones (one with no item, one with its own
\* status), and ones with a negative total, an item priced below zero, an
\* item of quantity 0, no items field.
OrderBodies ==
    {OrderA,
     [OrderA EXCEPT !.items = <<>>, !.total = 0] @@ [status |-> "paid"],
     [OrderA EXCEPT !.total = -1],
     [OrderA EXCEPT !.items = <<[ItemA EXCEPT !.price = -1]>>],
     [OrderA EXCEPT !.items = <<ItemA, [ItemA EXCEPT !.quantity = 0]>>],
     [user_email |-> "a@b.com", shipping_address |-> "home", payment_method |-> "cod",
      total |-> 2]}

ProductC ==
    [title |-> <<"B", ".">>, price |-> 2, category |-> "c1", brand |-> Some("b1")]

SearchTexts ==
    {None, Some(<<>>), Some(<<"a">>), Some(<<"B">>), Some(<<".">>), Some(<<"a", ".">>)}

CategoryNames == {None, Some(""), Some("c1")}

BrandNames == {None, Some(""), Some("b1")}

PriceBounds == {None, Some(0), Some(1), Some(2)}

\* ------------------------------------------------------- the specification

\* The process starts with the environment it is given; the handle is None
\* when the store is not configured. The store is empty.
Init ==
    /\ env \in [DATABASE_URL : BOOLEAN, DATABASE_NAME : BOOLEAN]
    /\ db \in (IF env.DATABASE_URL /\ env.DATABASE_NAME
               THEN {"None", "handle"} ELSE {"None"})
    /\ store = [c \in Collections |-> <<>>]
    /\ nextId = 1
    /\ created = <<>>
    /\ resp = NoResponse

Next ==
    \/ read_root
    \/ get_schema_info
    \/ \E q \in {None, Some(<<"a">>)}, min_price \in {None, Some(1)},
          limit \in Limits, fault \in BOOLEAN :
          list_products(q, None, None, min_price, None, limit, fault)
    \/ \E raw \in ProductBodies, fault \in BOOLEAN : create_product(raw, fault)
    \/ \E limit \in Limits, fault \in BOOLEAN : list_categories(limit, fault)
    \/ \E raw \in CategoryBodies, fault \in BOOLEAN : create_category(raw, fault)
    \/ \E user_email \in Emails, limit \in Limits, fault \in BOOLEAN :
          get_wishlist(user_email, limit, fault)
    \/ \E raw \in WishlistBodies, fault \in BOOLEAN : add_to_wishlist(raw, fault)
    \/ \E user_email \in Emails, limit \in Limits, fault \in BOOLEAN :
          list_orders(user_email, limit, fault)
    \/ \E raw \in OrderBodies, fault \in BOOLEAN : create_order(raw, fault)
    \/ \E nameError \in BOOLEAN, listError \in BOOLEAN, msg \in ErrorMessages,
          others \in OtherCollectionCounts :
          /\ ~(nameError /\ listError)
          /\ test_database(nameError, listError, msg, others)

Spec == Init /\ [][Next]_vars

\* ------------------------------------------- list_products over its inputs

MaxQueryDocs == 2

\* The collection after the bodies of `raws` were created in turn, the first
\* with identifier `first`.
Inserted(c, raws, first) ==
    [i \in 1..Len(raws) |-> NewDocument(Validated(c, raws[i]), ObjectId(first + i - 1))]

SeqsUpTo(S, n) == UNION {[1..k -> S] : k \in 0..n}

\* A configured process whose product collection holds up to MaxQueryDocs
\* products created earlier.
InitQuery ==
    /\ env = [DATABASE_URL |-> TRUE, DATABASE_NAME |-> TRUE]
    /\ db = "handle"
    /\ \E raws \in SeqsUpTo({ProductA, ProductB, ProductC}, MaxQueryDocs) :
          /\ store = [c \in Collections |->
                         IF c = "product" THEN Inserted(c, raws, 1) ELSE <<>>]
          /\ nextId = Len(raws) + 1
    /\ created = <<>>
    /\ resp = NoResponse

\* One request of list_products, over every combination of its parameters.
NextQuery ==
    /\ resp = NoResponse
    /\ \E q \in SearchTexts, category \in CategoryNames, brand \in BrandNames,
          min_price \in PriceBounds, max_price \in PriceBounds,
          limit \in {None, Some(0), Some(1)}, fault \in BOOLEAN :
          list_products(q, category, brand, min_price, max_price, limit, fault)

SpecQuery == InitQuery /\ [][NextQuery]_vars

\* --------------------------------------------- the lists over large stores

PreloadSizes ==
    {0, 1, DefaultProductLimit + 1, DefaultCategoryLimit + 1, MaxPreload}

LimitChoices == {None, Some(0), Some(1), Some(2), Some(MaxPreload)}

Repeat(x, n) == [i \in 1..n |-> x]

\* A configured process whose collections each hold n documents created
\* earlier.
InitLimit ==
    /\ env = [DATABASE_URL |-> TRUE, DATABASE_NAME |-> TRUE]
    /\ db = "handle"
    /\ \E n \in PreloadSizes :
          /\ store =
                [product  |-> Inserted("product", Repeat(ProductA, n), 1),
                 category |-> Inserted("category",
                                       Repeat([name |-> "Shirts", slug |-> "c1"], n), n + 1),
                 wishlist |-> Inserted("wishlist",
                                       Repeat([user_email |-> "a@b.com", product_id |-> "1"], n),
                                       2 * n + 1),
                 order    |-> Inserted("order", Repeat(OrderA, n), 3 * n + 1)]
          /\ nextId = 4 * n + 1
    /\ created = <<>>
    /\ resp = NoResponse

\* One request of a list operation, over the limits a caller may pass.
NextLimit ==
    /\ resp = NoResponse
    /\ \/ \E limit \in LimitChoices, fault \in BOOLEAN :
             list_products(None, None, None, None, None, limit, fault)
       \/ \E limit \in LimitChoices, fault \in BOOLEAN : list_categories(limit, fault)
       \/ \E user_email \in Emails, limit \in LimitChoices, fault \in BOOLEAN :
             get_wishlist(user_email, limit, fault)
       \/ \E user_email \in Emails, limit \in LimitChoices, fault \in BOOLEAN :
             list_orders(user_email, limit, fault)

SpecLimit == InitLimit /\ [][NextLimit]_vars

\* ------------------------------------------------------------ the claims

CreateOps == {"create_product", "create_category", "add_to_wishlist", "create_order"}

ListOps == {"list_products", "list_categories", "get_wishlist", "list_orders"}

DataOps == CreateOps \cup ListOps

\* A body that breaks a constraint of the record shape of its operation: a
\* required field is missing, or a bounded number is below its bound.
Lacks(raw, fields) == \E f \in fields : f \notin DOMAIN raw

ViolatesShape(op, raw) ==
    CASE op = "create_product" ->
            \/ Lacks(raw, {"title", "price", "category"})
            \/ raw.price < 0
      [] op = "create_category" -> Lacks(raw, {"name", "slug"})
      [] op = "add_to_wishlist" -> Lacks(raw, {"user_email", "product_id"})
      [] op = "create_order" ->
            \/ Lacks(raw, {"user_email", "shipping_address", "payment_method",
                           "items", "total"})
            \/ raw.total < 0
            \/ \E i \in 1..Len(raw.items) :
                  \/ Lacks(raw.items[i], {"product_id", "title", "price", "quantity"})
                  \/ raw.items[i].price < 0
                  \/ raw.items[i].quantity < 1

\* C1: a create operation given a payload that violates a constraint of its
\* record shape answers a validation error and inserts nothing: every
\* collection holds after the call what it held before.
C1_InvalidCreateInsertsNothing ==
    [][(resp'.op \in CreateOps /\ ViolatesShape(resp'.op, resp'.args.body))
          => (resp'.status = 422 /\ store' = store)]_vars

\* An order that violates its shape was refused while the order collection
\* already held a document.
C1_Witness ==
    /\ resp.op = "create_order"
    /\ ViolatesShape(resp.op, resp.args.body)
    /\ resp.status = 422
    /\ store["order"] # <<>>

\* A request the framework accepts: its body honours the record shape, its
\* required query parameter is given.
RequestAccepted(r) ==
    CASE r.op \in CreateOps -> ~ViolatesShape(r.op, r.args.body)
      [] r.op \in {"get_wishlist", "list_orders"} -> r.args.user_email # None
      [] OTHER -> TRUE

Answers5xxWithoutData(r) ==
    /\ r.status \in 500..599
    /\ "items" \notin DOMAIN r.body
    /\ "id" \notin DOMAIN r.body

StaticEndpointsAnswer ==
    resp.op \in {"read_root", "get_schema_info"} => resp.status = 200

\* C2 as stated: with the handle absent every data endpoint answers every
\* request with a 5xx error and no data, and the static endpoints answer
\* normally.
C2_Original ==
    /\ (db = "None" /\ resp.op \in DataOps) => Answers5xxWithoutData(resp)
    /\ StaticEndpointsAnswer

\* C2 as amended: with the handle absent every data endpoint answers every
\* request that passes request validation with a 5xx error and no data, and
\* a request that fails validation with the validation error and no data;
\* the static endpoints answer normally.
C2_UnavailableStoreIs5xx ==
    /\ (db = "None" /\ resp.op \in DataOps) =>
          IF RequestAccepted(resp)
          THEN Answers5xxWithoutData(resp)
          ELSE resp.status = 422 /\ "items" \notin DOMAIN resp.body
                                 /\ "id" \notin DOMAIN resp.body
    /\ StaticEndpointsAnswer

\* list_products answered an unconfigured process.
C2_Witness ==
    /\ db = "None"
    /\ resp.op = "list_products"
    /\ resp.status = 500

\* C3: test_database answers 200 in every store state, and with the handle
\* absent its `database` field is an unavailable-state message and its
\* `collections` field is empty.
C3_DiagnosticNeverRaises ==
    resp.op = "test_database" =>
        /\ resp.status = 200
        /\ db = "None" =>
              /\ resp.body.database \in {MsgNotAvailable, MsgNotInitialized}
              /\ resp.body.collections = <<>>

\* test_database answered while listing the collection names failed.
C3_Witness ==
    /\ resp.op = "test_database"
    /\ db = "handle"
    /\ resp.args.listError
    /\ ~resp.args.nameError
    /\ resp.status = 200

ListedCollection(op) ==
    CASE op = "list_products"   -> "product"
      [] op = "list_categories" -> "category"
      [] op = "get_wishlist"    -> "wishlist"
      [] op = "list_orders"     -> "order"

DefaultLimit(op) ==
    CASE op = "list_products"   -> DefaultProductLimit
      [] op = "list_categories" -> DefaultCategoryLimit
      [] op = "get_wishlist"    -> DefaultWishlistLimit
      [] op = "list_orders"     -> DefaultOrderLimit

EffectiveLimit(r) == IF r.args.limit = None THEN DefaultLimit(r.op) ELSE r.args.limit[1]

\* The filter of a list request matches a created payload.
RequestMatches(r, payload) ==
    CASE r.op = "list_products"   -> MatchesFilter(payload, r.args.query)
      [] r.op = "list_categories" -> TRUE
      [] OTHER                    -> payload.user_email = r.args.user_email[1]

\* item is the created document: its id is the identifier create returned,
\* it has no "_id", and its other fields are those of the validated payload.
IsCreated(item, c) ==
    /\ "id" \in DOMAIN item
    /\ item.id = c.id
    /\ "_id" \notin DOMAIN item
    /\ DOMAIN item \ {"id"} = DOMAIN c.payload
    /\ \A f \in DOMAIN c.payload : item[f] = c.payload[f]

\* C4: a list operation whose filter matches a created document and whose
\* limit does not exclude it returns the document with `id` the identifier
\* the create call returned, without `_id`, and with exactly the fields of
\* the validated payload.
C4_CreatedDocumentRoundTrips ==
    (resp.op \in ListOps /\ resp.status = 200) =>
        \A k \in 1..Len(created) :
            (/\ created[k].coll = ListedCollection(resp.op)
             /\ RequestMatches(resp, created[k].payload)
             /\ Len(store[created[k].coll]) <= EffectiveLimit(resp))
            => \E i \in 1..Len(resp.body.items) : IsCreated(resp.body.items[i], created[k])

\* list_orders returned an order created before it.
C4_Witness ==
    /\ resp.op = "list_orders"
    /\ resp.status = 200
    /\ \E k \in 1..Len(created), i \in 1..Len(resp.body.items) :
          /\ created[k].coll = "order"
          /\ IsCreated(resp.body.items[i], created[k])

\* The identifiers of the items of a list response, and of the stored
\* products that satisfy P.
ReturnedIds(r) == {r.body.items[i].id : i \in 1..Len(r.body.items)}

ProductIdsWhere(P(_)) ==
    {Str(store["product"][i]["_id"]) : i \in {j \in 1..Len(store["product"]) :
                                                P(store["product"][j])}}

\* min_price <= price <= max_price, each bound applying when it is given.
WithinBounds(price, min_price, max_price) ==
    /\ min_price # None => min_price[1] <= price
    /\ max_price # None => price <= max_price[1]

OnlyPriceBounds(r) ==
    /\ r.args.q = None
    /\ r.args.category = None
    /\ r.args.brand = None
    /\ r.args.limit = None

\* C5: list_products returns a product only if min_price <= price <=
\* max_price, each bound applying when it is given (0 included); and with no
\* other filter and no limit in the way it returns every product within the
\* bounds, the products priced at a bound among them.
C5_PriceBoundsInclusive ==
    (resp.op = "list_products" /\ resp.status = 200) =>
        /\ \A i \in 1..Len(resp.body.items) :
              WithinBounds(resp.body.items[i].price,
                           resp.args.min_price, resp.args.max_price)
        /\ OnlyPriceBounds(resp) =>
              ReturnedIds(resp) =
                  ProductIdsWhere(LAMBDA d : WithinBounds(d.price, resp.args.min_price,
                                                          resp.args.max_price))

\* With max_price = 0 a product priced 0 was returned and one priced above
\* it was left out.
C5_Witness ==
    /\ resp.op = "list_products"
    /\ resp.status = 200
    /\ OnlyPriceBounds(resp)
    /\ resp.args.max_price = Some(0)
    /\ \E i \in 1..Len(resp.body.items) : resp.body.items[i].price = 0
    /\ Len(resp.body.items) < Len(store["product"])

\* The filter made of the predicates of the parameters that `given` holds
\* of: a regex on title for q, equality for category and brand, one range on
\* price for min_price and max_price.
FilterOf(args, given(_, _)) ==
    LET range == (IF args.min_price # None THEN "gte" :> args.min_price[1] ELSE Empty)
                 @@ (IF args.max_price # None THEN "lte" :> args.max_price[1] ELSE Empty)
    IN  (IF given(args.q, <<>>)
         THEN "title" :> [regex |-> args.q[1], options |-> "i"] ELSE Empty)
        @@ (IF given(args.category, "") THEN "category" :> args.category[1] ELSE Empty)
        @@ (IF given(args.brand, "") THEN "brand" :> args.brand[1] ELSE Empty)
        @@ (IF args.min_price # None \/ args.max_price # None
            THEN "price" :> range ELSE Empty)

\* C6 as stated: the filter list_products sends is the conjunction of exactly
\* the predicates of its non-null parameters.
C6_Original ==
    (resp.op = "list_products" /\ "query" \in DOMAIN resp.args) =>
        resp.args.query = FilterOf(resp.args, LAMBDA opt, empty : opt # None)

\* C6 as amended: the filter list_products sends is the conjunction of
\* exactly the predicates of q, category and brand when they are neither null
\* nor the empty text, and of one range predicate on price when min_price or
\* max_price is non-null.
C6_FilterOfPresentParameters ==
    (resp.op = "list_products" /\ "query" \in DOMAIN resp.args) =>
        resp.args.query =
            FilterOf(resp.args, LAMBDA opt, empty : opt # None /\ opt[1] # empty)

\* An empty category contributed no predicate while a brand and a lower
\* price bound contributed theirs.
C6_Witness ==
    /\ resp.op = "list_products"
    /\ resp.args.category = Some("")
    /\ resp.args.brand = Some("b1")
    /\ resp.args.min_price = Some(0)
    /\ DOMAIN resp.args.query = {"brand", "price"}

\* C7: a list operation returns at most `limit` items, for every limit >= 0
\* the caller passes and for the default limit of the operation.
C7_AtMostLimitItems ==
    (resp.op \in ListOps /\ resp.status = 200) =>
        Len(resp.body.items) <= EffectiveLimit(resp)

\* list_products under its default limit returned 50 of more than 50
\* products.
C7_Witness ==
    /\ resp.op = "list_products"
    /\ resp.status = 200
    /\ resp.args.limit = None
    /\ Len(store["product"]) > DefaultProductLimit
    /\ Len(resp.body.items) = DefaultProductLimit

\* q occurs in title as a literal text, letters compared without case.
OccursIn(q, title) ==
    \E i \in 1..(Len(title) + 1) :
        /\ i + Len(q) - 1 <= Len(title)
        /\ \A j \in 1..Len(q) : Lower(q[j]) = Lower(title[i + j - 1])

OnlySearchText(r) ==
    /\ r.args.q # None
    /\ r.args.category = None
    /\ r.args.brand = None
    /\ r.args.min_price = None
    /\ r.args.max_price = None
    /\ r.args.limit = None

\* C8: list_products(q) matches a product exactly when q occurs in its title
\* as a literal substring compared case-insensitively.
C8_SearchIsLiteralSubstring ==
    (resp.op = "list_products" /\ resp.status = 200 /\ OnlySearchText(resp)) =>
        ReturnedIds(resp) = ProductIdsWhere(LAMBDA d : OccursIn(resp.args.q[1], d.title))

GrowsOnly ==
    \A c \in Collections :
        /\ Len(store[c]) <= Len(store'[c])
        /\ SubSeq(store'[c], 1, Len(store[c])) = store[c]

\* No identifier is held by two documents, of one collection or of two:
\* there are as many identifiers as documents.
IdentifiersDistinct ==
    Cardinality(UNION {{store[c][i]["_id"] : i \in 1..Len(store[c])} : c \in Collections})
        = Len(store["product"]) + Len(store["category"])
          + Len(store["wishlist"]) + Len(store["order"])

SuccessfulCreate(r) == r.op \in CreateOps /\ r.status = 200

\* C9: the store only grows: every request leaves each stored document in
\* its collection with its identifier and fields, no identifier is assigned
\* twice, and a request other than a successful create leaves every
\* collection as it was.
C9_StoreOnlyGrows ==
    [][/\ IF SuccessfulCreate(resp') THEN GrowsOnly ELSE store' = store
       /\ IdentifiersDistinct']_vars

\* A list was answered from a collection holding two documents.
C9_Witness ==
    /\ resp.op = "list_categories"
    /\ resp.status = 200
    /\ Len(store["category"]) = 2

DiagnosticFailed(r) ==
    /\ r.op = "test_database"
    /\ db = "None" \/ r.args.nameError \/ r.args.listError

CollectionsCapped ==
    resp.op = "test_database" => Len(resp.body.collections) <= CollectionsShown

=============================================================================
